---- MODULE Spec2Model ----
(***************************************************************************)
(* S3Archive (storagelayer/s3.py): a content-addressed archive over one    *)
(* S3 bucket, with a thread-local cache of downloaded objects.             *)
(*                                                                         *)
(* Strings that the code slices or prefix-matches (content hashes, object  *)
(* keys) are sequences of one-character strings.  A file's bytes are a     *)
(* small positive integer; 0 stands for a path with no file behind it.     *)
(***************************************************************************)
EXTENDS Integers, Sequences, FiniteSets, TLC

\* ------------------------------------------------------------- bounds
NumCtx == 2        \* threads sharing the archive
NumContents == 2   \* distinct file contents
MaxCalls == 3      \* public calls started in one run
MaxClock == 2      \* seconds the wall clock can advance in one run

\* ---------------------------------------------------------- constants
TIMEOUT == 84600
HashLen == 4       \* width of a hex digest
PrefixLen == 2     \* characters of the digest that name the prefix directory

Ctx == 1..NumCtx
Bytes == 1..NumContents
Missing == 0                       \* the path does not exist
TmpNames == 1..NumCtx              \* names mkdtemp can hand out
NoHash == <<>>                     \* Python None where a hash, key or path is expected
NoName == "<None>"                 \* Python None where a str is expected
FileNameArgs == {NoName, "report.pdf"}
\* <<file_name, mime_type>> handed to generate_url
UrlArgs == {<<NoName, NoName>>, <<"report.pdf", "application/pdf">>}

\* ------------------------------------------------- strings and paths
HexDigits == <<"0","1","2","3","4","5","6","7","8","9","a","b","c","d","e","f">>
\* Code-point order of the characters that occur in keys.
CharOrder == <<"/","0","1","2","3","4","5","6","7","8","9","a","b","c","d","e","f","t">>

Ord(ch) == CHOOSE i \in 1..Len(CharOrder) : CharOrder[i] = ch

RECURSIVE Pow(_, _)
Pow(b, e) == IF e = 0 THEN 1 ELSE b * Pow(b, e - 1)

RECURSIVE HexOf(_, _)
HexOf(n, width) ==
    IF width = 0 THEN <<>>
    ELSE Append(HexOf(n \div 16, width - 1), HexDigits[(n % 16) + 1])

StartsWith(s, p) == Len(p) <= Len(s) /\ SubSeq(s, 1, Len(p)) = p

RECURSIVE StrLess(_, _)
StrLess(a, b) ==
    IF a = <<>> THEN b # <<>>
    ELSE IF b = <<>> THEN FALSE
    ELSE IF a[1] = b[1] THEN StrLess(Tail(a), Tail(b))
    ELSE Ord(a[1]) < Ord(b[1])

path_join(a, b) == a \o <<"/">> \o b

DataName == <<"d","a","t","a">>

\* ------------------------------------- collaborators outside s3.py
File(name, bytes) == [name |-> name, bytes |-> bytes]

\* storagelayer.util.checksum: a fixed-width hex digest of the file's bytes.
checksum(file) == HexOf((file.bytes * 37 + 11) % Pow(16, HashLen), HashLen)

\* Archive._get_prefix: the hash split into a short prefix directory and the rest.
_get_prefix(content_hash) ==
    IF content_hash = NoHash THEN NoHash
    ELSE path_join(SubSeq(content_hash, 1, PrefixLen),
                   SubSeq(content_hash, PrefixLen + 1, Len(content_hash)))

\* normality.safe_filename(file_name, default='data')
safe_filename(file_name, default) ==
    IF file_name = NoName \/ file_name = "" THEN default ELSE file_name

\* The files handed to archive_file: a.txt and b.txt hold the same bytes, and
\* gone.txt does not exist.
SrcFiles == {File("a.txt", 1)} \cup {File("b.txt", b) : b \in Bytes}
                \cup {File("gone.txt", Missing)}

Hashes == {checksum(File("a.txt", b)) : b \in Bytes}
HashArgs == Hashes \cup {NoHash}

\* ------------------------------------------------------------- state
VARIABLES
    bucket,     \* S3 bucket: key -> bytes of the object
    local,      \* threading.local: thread -> its mkdtemp directory, 0 if unset
    roots,      \* temp directories that exist
    dirs,       \* cache directories <<root, content_hash>> that exist
    files,      \* cached files: <<root, content_hash, file_name>> -> bytes
    pc,         \* thread -> where it is in its current call
    frame,      \* thread -> arguments and locals of its current call
    ret,        \* thread -> outcome of its last finished call
    nops,       \* actor -> operations started (actor 0: other users of the bucket)
    uploads,    \* history: hash -> number of upload_file calls that stored it
    archived,   \* history: <<hash, bytes>> of every archive_file that returned
    hashed,     \* history: <<bytes, hash>> of every archive_file that computed the hash
    sequential, \* history: no two archive_file calls have overlapped
    expect,     \* history: thread -> bytes archived under h when its last load_file(h) began
    again,      \* history: thread -> its last load_file wrote to a path that held a file
    clock       \* time.time(), in seconds since the run began

vars == <<bucket, local, roots, dirs, files, pc, frame, ret, nops,
          uploads, archived, hashed, sequential, expect, again, clock>>

NoFile == [name |-> NoName, bytes |-> Missing]
NoFrame == [content_hash |-> NoHash, file |-> NoFile, supplied |-> FALSE,
            file_name |-> NoName, mime_type |-> NoName, key |-> NoHash]

\* An outcome: the call, the content hash it worked on, what it returned
\* (value, NoHash for Python None) or raised (exc), and what it did.
Returned(op, h, v, did) ==
    [op |-> op, content_hash |-> h, value |-> v, exc |-> "none", did |-> did]
Raised(op, h, e, did) ==
    [op |-> op, content_hash |-> h, value |-> NoHash, exc |-> e, did |-> did]
NoRet == Returned("none", NoHash, NoHash, "nothing")

RECURSIVE Sum(_, _)
Sum(f, S) == IF S = {} THEN 0
             ELSE LET x == CHOOSE y \in S : TRUE IN f[x] + Sum(f, S \ {x})

\* One more operation may start, and actor a starts it.
Budget(a) ==
    /\ Sum(nops, DOMAIN nops) < MaxCalls
    /\ nops' = [nops EXCEPT ![a] = @ + 1]

\* ------------------------------------------------------- the bucket
RECURSIVE SortKeys(_)
SortKeys(ks) ==
    IF ks = {} THEN <<>>
    ELSE LET first == CHOOSE k \in ks : \A o \in ks \ {k} : StrLess(k, o)
         IN <<first>> \o SortKeys(ks \ {first})

\* client.list_objects(MaxKeys, Bucket, Prefix)['Contents']
list_objects(bkt, MaxKeys, Prefix) ==
    LET all == SortKeys({k \in DOMAIN bkt : StartsWith(k, Prefix)})
    IN SubSeq(all, 1, IF Len(all) < MaxKeys THEN Len(all) ELSE MaxKeys)

\* Mutant: the probe lists under the prefix directory, not under the whole
\* prefix of the hash.
_locate_key_dir_prefix(bkt, content_hash) ==
    IF content_hash = NoHash THEN NoHash
    ELSE LET res == list_objects(bkt, 1, SubSeq(content_hash, 1, PrefixLen))
         IN IF Len(res) > 0 THEN res[1] ELSE NoHash

\* Mutant: list_objects is called without Prefix.
_locate_key_no_prefix(bkt, content_hash) ==
    IF content_hash = NoHash THEN NoHash
    ELSE LET res == list_objects(bkt, 1, <<>>)
         IN IF Len(res) > 0 THEN res[1] ELSE NoHash

_locate_key(bkt, content_hash) ==
    IF content_hash = NoHash THEN NoHash
    ELSE LET prefix == _get_prefix(content_hash)
         IN IF prefix = NoHash THEN NoHash
            ELSE LET res == list_objects(bkt, 1, prefix)
                 IN IF Len(res) > 0 THEN res[1] ELSE NoHash

Put(f, k, v) == [x \in DOMAIN f \cup {k} |-> IF x = k THEN v ELSE f[x]]
Without(f, ks) == [x \in DOMAIN f \ ks |-> f[x]]

\* ----------------------------------------------------- archive_file
\* Mutant: the digest is taken of the path string, not of the file's bytes.
ContentHashOf_of_path(file, content_hash) ==
    IF content_hash = NoHash
    THEN checksum(File(file.name, IF file.name = "a.txt" THEN 1 ELSE 2))
    ELSE content_hash

ContentHashOf(file, content_hash) ==
    IF content_hash = NoHash THEN checksum(file) ELSE content_hash

\* Mutant: the existence check is dropped.
ShouldUpload_always(obj) == TRUE

\* Mutant: `if obj is not None:`
ShouldUpload_inverted(obj) == obj # NoHash

\* `if obj is None:`
ShouldUpload(obj) == obj = NoHash

\* Mutant: the key is built from the prefix directory alone.
UploadPath_dir_only(content_hash) ==
    path_join(SubSeq(content_hash, 1, PrefixLen), DataName)

\* Mutant: the key is the prefix, without the file name 'data'.
UploadPath_no_data(content_hash) == _get_prefix(content_hash)

UploadPath(content_hash) == path_join(_get_prefix(content_hash), DataName)

\* The bucket the constructor finds may already hold what earlier runs archived:
\* any set of files, each stored by archive_file under its computed hash.
Init ==
    \E S \in SUBSET Bytes :
        /\ bucket = [k \in {UploadPath(checksum(File("a.txt", b))) : b \in S} |->
                         CHOOSE b \in S : UploadPath(checksum(File("a.txt", b))) = k]
        /\ uploads = [h \in Hashes |->
                         IF \E b \in S : checksum(File("a.txt", b)) = h THEN 1 ELSE 0]
        /\ archived = {<<checksum(File("a.txt", b)), b>> : b \in S}
        /\ hashed = {<<b, checksum(File("a.txt", b))>> : b \in S}
        /\ local = [t \in Ctx |-> 0]
        /\ roots = {}
        /\ dirs = {}
        /\ files = <<>>
        /\ pc = [t \in Ctx |-> "idle"]
        /\ frame = [t \in Ctx |-> NoFrame]
        /\ ret = [t \in Ctx |-> NoRet]
        /\ nops = [a \in Ctx \cup {0} |-> 0]
        /\ sequential = TRUE
        /\ expect = [t \in Ctx |-> {}]
        /\ again = [t \in Ctx |-> FALSE]
        /\ clock = 0

\* checksum(file_path) and _locate_key(content_hash)
ArchiveCall(t, file, content_hash) ==
    /\ pc[t] = "idle"
    /\ Budget(t)
    /\ sequential' = (sequential /\ \A o \in Ctx : pc[o] # "archive_upload")
    /\ IF content_hash = NoHash /\ file.bytes = Missing
       THEN \* checksum() cannot open the file
            /\ ret' = [ret EXCEPT ![t] =
                   Raised("archive_file", NoHash, "IOError", "nothing")]
            /\ UNCHANGED <<pc, frame>>
       ELSE LET h == ContentHashOf(file, content_hash)
            IN /\ frame' = [frame EXCEPT ![t] =
                      [NoFrame EXCEPT !.content_hash = h, !.file = file,
                                      !.supplied = (content_hash # NoHash),
                                      !.key = _locate_key(bucket, h)]]
               /\ pc' = [pc EXCEPT ![t] = "archive_upload"]
               /\ UNCHANGED ret
    /\ UNCHANGED <<bucket, local, roots, dirs, files, uploads, archived, hashed, expect,
                   clock, again>>

\* The body of `if obj is None:` and the return.
ArchiveUpload(t) ==
    LET f == frame[t]
        h == f.content_hash
        stores == ShouldUpload(f.key)
        fails == stores /\ f.file.bytes = Missing    \* upload_file cannot open the file
    IN /\ pc[t] = "archive_upload"
       /\ pc' = [pc EXCEPT ![t] = "idle"]
       /\ frame' = [frame EXCEPT ![t] = NoFrame]
       /\ IF stores /\ ~fails
          THEN /\ bucket' = Put(bucket, UploadPath(h), f.file.bytes)
               /\ uploads' = [uploads EXCEPT ![h] = @ + 1]
          ELSE UNCHANGED <<bucket, uploads>>
       /\ IF fails
          THEN /\ ret' = [ret EXCEPT ![t] = Raised("archive_file", h, "OSError", "nothing")]
               /\ UNCHANGED <<archived, hashed>>
          ELSE /\ ret' = [ret EXCEPT ![t] =
                      Returned("archive_file", h, h,
                               IF stores THEN "uploaded" ELSE "found")]
               /\ archived' = IF f.file.bytes = Missing THEN archived
                              ELSE archived \cup {<<h, f.file.bytes>>}
               /\ hashed' = IF f.supplied THEN hashed
                            ELSE hashed \cup {<<f.file.bytes, h>>}
       /\ UNCHANGED <<local, roots, dirs, files, nops, sequential, expect,
                      clock, again>>

\* ------------------------------------------------- the local cache
\* tempfile.mkdtemp: a directory that did not exist.  Names are opaque, so the
\* least unused one stands for any fresh name.
mkdtemp(existing) ==
    CHOOSE d \in TmpNames \ existing : \A o \in TmpNames \ existing : d <= o

\* Mutant: the directory is kept on the archive, not in threading.local.
LocalDir_shared(t) ==
    IF \E o \in Ctx : local[o] # 0 THEN local[CHOOSE o \in Ctx : local[o] # 0]
    ELSE mkdtemp(roots)

\* Mutant: without the hasattr check, every call makes a temp directory.
LocalDir_fresh(t) == IF TmpNames \ roots = {} THEN local[t] ELSE mkdtemp(roots)

\* self.local.dir once _get_local_prefix has run in thread t
LocalDir(t) == IF local[t] = 0 THEN mkdtemp(roots) ELSE local[t]

_get_local_prefix(dir, content_hash) == <<dir, content_hash>>

isdir(ds, path) == path \in ds

\* Mutant: the tree removed is the thread's whole temp directory.
rmtree_root(ds, fs, path) ==
    IF path \in ds
    THEN [dirs |-> {d \in ds : d[1] # path[1]},
          files |-> Without(fs, {p \in DOMAIN fs : p[1] = path[1]}),
          exc |-> "none", did |-> "removed"]
    ELSE [dirs |-> ds, files |-> fs, exc |-> "OSError", did |-> "nothing"]

\* shutil.rmtree(path)
rmtree(ds, fs, path) ==
    IF path \in ds
    THEN [dirs |-> ds \ {path},
          files |-> Without(fs, {p \in DOMAIN fs : <<p[1], p[2]>> = path}),
          exc |-> "none", did |-> "removed"]
    ELSE [dirs |-> ds, files |-> fs, exc |-> "OSError", did |-> "nothing"]

\* Mutant: rmtree without the isdir check.
CleanupPath_no_check(ds, fs, path) == rmtree(ds, fs, path)

\* cleanup_file once path is known
CleanupPath(ds, fs, path) ==
    IF isdir(ds, path) THEN rmtree(ds, fs, path)
    ELSE [dirs |-> ds, files |-> fs, exc |-> "none", did |-> "nothing"]

\* Mutant: without `if content_hash is None: return`.
CleanupSkips_never(content_hash) == FALSE

\* `if content_hash is None:`
CleanupSkips(content_hash) == content_hash = NoHash

CleanupCall(t, content_hash) ==
    /\ pc[t] = "idle"
    /\ Budget(t)
    /\ IF CleanupSkips(content_hash)
       THEN /\ ret' = [ret EXCEPT ![t] =
                   Returned("cleanup_file", NoHash, NoHash, "nothing")]
            /\ UNCHANGED <<local, roots, dirs, files>>
       ELSE LET d == LocalDir(t)
                r == CleanupPath(dirs, files, _get_local_prefix(d, content_hash))
            IN /\ local' = [local EXCEPT ![t] = d]
               /\ roots' = roots \cup {d}
               /\ dirs' = r.dirs
               /\ files' = r.files
               /\ ret' = [ret EXCEPT ![t] =
                      IF r.exc = "none"
                      THEN Returned("cleanup_file", content_hash, NoHash, r.did)
                      ELSE Raised("cleanup_file", content_hash, r.exc, r.did)]
    /\ UNCHANGED <<bucket, pc, frame, uploads, archived, hashed, sequential, expect,
                   clock, again>>

\* -------------------------------------------------------- load_file
ArchivedUnder(h) == {p[2] : p \in {q \in archived : q[1] = h}}

\* _locate_key(content_hash) and `if key is not None:`
LoadCall(t, content_hash, file_name) ==
    /\ pc[t] = "idle"
    /\ Budget(t)
    /\ expect' = [expect EXCEPT ![t] = ArchivedUnder(content_hash)]
    /\ LET key == _locate_key(bucket, content_hash)
       IN IF key = NoHash
          THEN /\ ret' = [ret EXCEPT ![t] =
                      Returned("load_file", content_hash, NoHash, "nothing")]
               /\ UNCHANGED <<pc, frame>>
          ELSE /\ pc' = [pc EXCEPT ![t] = "load_fetch"]
               /\ frame' = [frame EXCEPT ![t] =
                      [NoFrame EXCEPT !.content_hash = content_hash,
                                      !.file_name = file_name, !.key = key]]
               /\ UNCHANGED ret
    /\ UNCHANGED <<bucket, local, roots, dirs, files, uploads, archived, hashed,
                   sequential, clock, again>>

\* os.makedirs(path): the directories afterwards and what it raised.  It
\* raises when the directory exists, and when it cannot create it (denied).
makedirs(ds, path, denied) ==
    IF path \in ds THEN [dirs |-> ds, exc |-> "FileExistsError"]
    ELSE IF denied THEN [dirs |-> ds, exc |-> "PermissionError"]
    ELSE [dirs |-> ds \cup {path}, exc |-> "none"]

\* Mutant: safe_filename is not applied to file_name.
LocalPath_raw(dir, file_name) == dir \o <<file_name>>

\* os.path.join(path, safe_filename(file_name, default='data'))
LocalPath(dir, file_name) == dir \o <<safe_filename(file_name, "data")>>

\* Mutant: a download that fails leaves the file it had opened at path.
download_file_partial(fs, ds, bkt, key, path) ==
    IF key \notin DOMAIN bkt
    THEN [files |-> Put(fs, path, Missing), exc |-> "ClientError"]
    ELSE IF <<path[1], path[2]>> \notin ds
    THEN [files |-> fs, exc |-> "FileNotFoundError"]
    ELSE [files |-> Put(fs, path, bkt[key]), exc |-> "none"]

\* client.download_file(bucket, key, path): the files afterwards and what it
\* raised.  It asks S3 for the object first, then writes it under a temporary
\* name in the directory of path and renames that to path when it is whole.
download_file(fs, ds, bkt, key, path) ==
    IF key \notin DOMAIN bkt
    THEN [files |-> fs, exc |-> "ClientError"]
    ELSE IF <<path[1], path[2]>> \notin ds
    THEN [files |-> fs, exc |-> "FileNotFoundError"]
    ELSE [files |-> Put(fs, path, bkt[key]), exc |-> "none"]

\* What a failed download_file did.
FailedHow(exc) == IF exc = "ClientError" THEN "vanished" ELSE "nodir"

\* Mutant: a failed download is passed over like the makedirs error.
LoadResult_swallow(content_hash, path, exc) ==
    IF exc = "none" THEN Returned("load_file", content_hash, path, "downloaded")
    ELSE Returned("load_file", content_hash, NoHash, FailedHow(exc))

\* What load_file hands back once download_file has run: the path, or the
\* error download_file raised.
LoadResult(content_hash, path, exc) ==
    IF exc = "none" THEN Returned("load_file", content_hash, path, "downloaded")
    ELSE Raised("load_file", content_hash, exc, FailedHow(exc))

\* The body of `if key is not None:`; denied says whether os.makedirs is
\* refused the directory it has to create.
LoadBody(t, denied) ==
    LET f == frame[t]
        h == f.content_hash
        d == LocalDir(t)
        dir == _get_local_prefix(d, h)
        made == makedirs(dirs, dir, denied)     \* `except: pass` drops made.exc
        path == LocalPath(dir, f.file_name)
        got == download_file(files, made.dirs, bucket, f.key, path)
    IN /\ pc[t] = "load_fetch"
       /\ denied => made.exc = "PermissionError"
       /\ local' = [local EXCEPT ![t] = d]
       /\ roots' = roots \cup {d}
       /\ dirs' = made.dirs
       /\ files' = got.files
       /\ ret' = [ret EXCEPT ![t] = LoadResult(h, path, got.exc)]
       /\ pc' = [pc EXCEPT ![t] = "idle"]
       /\ frame' = [frame EXCEPT ![t] = NoFrame]
       /\ again' = [again EXCEPT ![t] = path \in DOMAIN files]
       /\ UNCHANGED <<bucket, nops, uploads, archived, hashed, sequential, expect,
                      clock>>

\* load_file past its locate step, the file system letting it work.
LoadFetch(t) == LoadBody(t, FALSE)

\* load_file past its locate step, os.makedirs failing for another reason
\* than the directory being there.
LoadFetchDenied(t) == LoadBody(t, TRUE)

\* ----------------------------------------------------- generate_url
\* _locate_key(content_hash) and `if key is None: return`
UrlCall(t, content_hash, file_name, mime_type) ==
    /\ pc[t] = "idle"
    /\ Budget(t)
    /\ LET key == _locate_key(bucket, content_hash)
       IN IF key = NoHash
          THEN /\ ret' = [ret EXCEPT ![t] =
                      Returned("generate_url", content_hash, NoHash, "nothing")]
               /\ UNCHANGED <<pc, frame>>
          ELSE /\ pc' = [pc EXCEPT ![t] = "url_sign"]
               /\ frame' = [frame EXCEPT ![t] =
                      [NoFrame EXCEPT !.content_hash = content_hash,
                                      !.file_name = file_name,
                                      !.mime_type = mime_type, !.key = key]]
               /\ UNCHANGED ret
    /\ UNCHANGED <<bucket, local, roots, dirs, files, uploads, archived, hashed,
                   sequential, expect, clock, again>>

\* Mutant: ExpiresIn is not passed, and the URL gets the client's default.
PresignedUrl_no_expires(key, file_name, mime_type, now) ==
    <<key,
      IF mime_type = NoName \/ mime_type = "" THEN NoName ELSE mime_type,
      IF file_name = NoName \/ file_name = "" THEN NoName ELSE file_name,
      now + 3600>>

\* The presigned URL as <<Key, ResponseContentType, ResponseContentDisposition,
\* expiry>>; generate_presigned_url signs locally at the time now, with
\* ExpiresIn=self.TIMEOUT, and sends nothing to S3.
PresignedUrl(key, file_name, mime_type, now) ==
    <<key,
      IF mime_type = NoName \/ mime_type = "" THEN NoName ELSE mime_type,
      IF file_name = NoName \/ file_name = "" THEN NoName ELSE file_name,
      now + TIMEOUT>>

UrlSign(t) ==
    LET f == frame[t]
    IN /\ pc[t] = "url_sign"
       /\ ret' = [ret EXCEPT ![t] =
              Returned("generate_url", f.content_hash,
                       PresignedUrl(f.key, f.file_name, f.mime_type, clock), "signed")]
       /\ pc' = [pc EXCEPT ![t] = "idle"]
       /\ frame' = [frame EXCEPT ![t] = NoFrame]
       /\ UNCHANGED <<bucket, local, roots, dirs, files, nops, uploads, archived,
                      hashed, sequential, expect, clock, again>>

\* ------------------------------------------ outside the archive
\* Another user of the bucket deletes an object.
ExternalDelete(key) ==
    /\ key \in DOMAIN bucket
    /\ Budget(0)
    /\ bucket' = Without(bucket, {key})
    /\ UNCHANGED <<local, roots, dirs, files, pc, frame, ret, uploads,
                   archived, hashed, sequential, expect, clock, again>>

\* A second passes.
Tick ==
    /\ clock < MaxClock
    /\ clock' = clock + 1
    /\ UNCHANGED <<bucket, local, roots, dirs, files, pc, frame, ret, nops,
                   uploads, archived, hashed, sequential, expect, again>>

\* ------------------------------------------------- specifications
Next ==
    \E t \in Ctx :
        \/ \E file \in SrcFiles, h \in HashArgs : ArchiveCall(t, file, h)
        \/ ArchiveUpload(t)
        \/ \E h \in HashArgs, n \in FileNameArgs : LoadCall(t, h, n)
        \/ LoadFetch(t)
        \/ \E h \in HashArgs : CleanupCall(t, h)
        \/ \E h \in HashArgs, a \in UrlArgs : UrlCall(t, h, a[1], a[2])
        \/ UrlSign(t)

\* The archive's threads alone.
Spec == Init /\ [][Next]_vars

NextExt ==
    \/ Next
    \/ \E k \in DOMAIN bucket : ExternalDelete(k)
    \/ \E t \in Ctx : LoadFetchDenied(t)

\* The archive's threads, other users of the bucket, and a file system that
\* can refuse a directory.
SpecExt == Init /\ [][NextExt]_vars

NextClock == Next \/ Tick

\* The archive's threads, and time passing.
SpecClock == Init /\ [][NextClock]_vars

\* ------------------------------------------------------------ claims
\* The key the layout gives a hash: <prefix derived from the hash>/data.
StorageKey(h) == _get_prefix(h) \o <<"/">> \o DataName

\* The objects a probe for h can see.
ObjectsFor(h) == {k \in DOMAIN bucket : StartsWith(k, _get_prefix(h))}

HashOfBytes(b) == checksum(File("a.txt", b))

\* Every archive_file call so far, finished or under way, that was handed a
\* content hash was handed the checksum of its file.
Honest ==
    /\ \A p \in archived : HashOfBytes(p[2]) = p[1]
    /\ \A t \in Ctx : (pc[t] = "archive_upload" /\ frame[t].file.bytes # Missing)
                          => checksum(frame[t].file) = frame[t].content_hash

\* Thread t's last call was load_file(h) for an h that archive_file had
\* returned before the call began.
LoadedArchived(t) == ret[t].op = "load_file" /\ pc[t] = "idle" /\ expect[t] # {}

GotPath(t) == ret[t].exc = "none" /\ ret[t].value # NoHash /\ ret[t].value \in DOMAIN files

\* C1 as claimed: load_file(h) returns a path whose bytes are those of every
\* file f for which archive_file returned h, the hash computed or supplied.
C1_RoundTripAsClaimed ==
    \A t \in Ctx : LoadedArchived(t) =>
        /\ GotPath(t)
        /\ \A b \in expect[t] : files[ret[t].value] = b

\* C1 amended: when every supplied content hash is the checksum of its file,
\* load_file(h) returns a path whose bytes are those f had when archive_file
\* returned h.
C1_RoundTrip ==
    \A t \in Ctx : (Honest /\ LoadedArchived(t)) =>
        /\ GotPath(t)
        /\ \A b \in expect[t] : files[ret[t].value] = b

\* A thread archived a file in this run and a thread then loaded its hash.
C1_Witness ==
    \E t, o \in Ctx :
        /\ Honest /\ LoadedArchived(t) /\ GotPath(t)
        /\ ret[o].op = "archive_file" /\ ret[o].did = "uploaded"
        /\ ret[o].value = ret[t].content_hash

\* C2: archive_file returns the hash it worked on; a call that finds the
\* object stored uploads nothing and leaves the bucket as it was; and while
\* no two archive_file calls have overlapped, no hash is uploaded twice.
C2_IdempotentArchive ==
    [][ /\ sequential' => \A h \in Hashes : uploads'[h] <= 1
        /\ \A t \in Ctx :
             /\ (pc[t] = "idle" /\ pc'[t] = "archive_upload"
                 /\ StorageKey(frame'[t].content_hash) \in DOMAIN bucket)
                  => ~ShouldUpload(frame'[t].key)
             /\ (pc[t] = "archive_upload" /\ pc'[t] = "idle")
                  => /\ ~ShouldUpload(frame[t].key)
                          => (bucket' = bucket /\ uploads' = uploads
                              /\ ret'[t].did = "found")
                     /\ ret'[t].exc = "none"
                          => ret'[t].value = frame[t].content_hash
      ]_vars

\* Both threads archived under one hash, one after the other, with one upload.
C2_Witness ==
    /\ sequential
    /\ \E h \in Hashes :
         /\ uploads[h] = 1
         /\ \E t, o \in Ctx :
              /\ ret[t] = Returned("archive_file", h, h, "uploaded")
              /\ ret[o] = Returned("archive_file", h, h, "found")

\* Threads that are computing, or the history of computed hashes, paired
\* as <<file bytes, hash>>.
ComputedPairs ==
    hashed \cup {<<frame[t].file.bytes, frame[t].content_hash>> :
                    t \in {o \in Ctx : pc[o] = "archive_upload" /\ ~frame[o].supplied}}

NeverStored(h) == h \in Hashes /\ uploads[h] = 0

\* C4: for a hash no archive_file call has ever stored, load_file and
\* generate_url return None without raising, neither gets past its locate
\* step, and load_file leaves no cache directory for the hash.
C4_Absence ==
    \A t \in Ctx :
        /\ pc[t] \in {"load_fetch", "url_sign"} => ~NeverStored(frame[t].content_hash)
        /\ (ret[t].op \in {"load_file", "generate_url"}
            /\ NeverStored(ret[t].content_hash))
             => /\ ret[t] = Returned(ret[t].op, ret[t].content_hash, NoHash, "nothing")
                /\ ret[t].op = "load_file"
                     => (local[t] = 0
                         \/ ~isdir(dirs, <<local[t], ret[t].content_hash>>))

\* One thread loaded and another asked a URL for a hash never stored, while
\* the bucket holds the object of another hash.
C4_Witness ==
    \E t, o \in Ctx, h \in Hashes :
        /\ NeverStored(h) /\ DOMAIN bucket # {}
        /\ ret[t].op = "load_file" /\ ret[t].content_hash = h
        /\ ret[o].op = "generate_url" /\ ret[o].content_hash = h

\* An object is stored under the key of h exactly when a file whose bytes
\* hash to h has been archived.
LifecycleIff ==
    \A h \in Hashes :
        StorageKey(h) \in DOMAIN bucket <=> \E p \in archived : HashOfBytes(p[2]) = h

StaysStored == \A k \in DOMAIN bucket : k \in DOMAIN bucket'

\* C5 as claimed: the object under the key of h exists iff an earlier
\* archive_file call archived a file whose bytes hash to h, and once it
\* exists it exists in every later state.
C5_LifecycleAsClaimed == LifecycleIff /\ [][LifecycleIff' /\ StaysStored]_vars

\* C5 amended: the same, when every supplied content hash is the checksum of
\* its file.
C5_Lifecycle ==
    (Honest => LifecycleIff) /\ [][(Honest' => LifecycleIff') /\ StaysStored]_vars

\* A thread uploaded a file in this run, its object is stored, and another
\* hash has no object.
C5_Witness ==
    /\ Honest
    /\ \E t \in Ctx :
         /\ ret[t].op = "archive_file" /\ ret[t].did = "uploaded"
         /\ StorageKey(ret[t].value) \in DOMAIN bucket
    /\ \E h \in Hashes : StorageKey(h) \notin DOMAIN bucket

\* What thread t holds in its own temp directory.
CacheOf(t) ==
    [dirs |-> {d \in dirs : d[1] = local[t]},
     files |-> [p \in {q \in DOMAIN files : q[1] = local[t]} |-> files[p]]]

\* Thread t takes this step.
Acts(t) == nops'[t] # nops[t] \/ pc'[t] # pc[t]

Loaded(t, h) ==
    ret[t].op = "load_file" /\ ret[t].did = "downloaded" /\ ret[t].content_hash = h

\* C6: two threads that loaded the same hash hold different paths, each under
\* its own temp directory and each with its file; a cleanup_file by one thread
\* leaves the other thread's cache directories and files as they were.
C6_CacheIsolation ==
    [][ \A a, b \in Ctx : a # b =>
          /\ \A h \in Hashes : (Loaded(a, h)' /\ Loaded(b, h)') =>
                /\ ret'[a].value # ret'[b].value
                /\ ret'[a].value[1] = local'[a] /\ ret'[b].value[1] = local'[b]
                /\ local'[a] # local'[b]
                /\ ret'[a].value \in DOMAIN files' /\ ret'[b].value \in DOMAIN files'
          /\ (Acts(a) /\ ret'[a].op = "cleanup_file" /\ local[b] # 0)
                => CacheOf(b)' = CacheOf(b)
      ]_vars

\* Both threads loaded h, one cleaned its copy up, and the other's is there.
C6_Witness ==
    \E a, b \in Ctx, h \in Hashes :
        /\ a # b
        /\ ret[a].op = "cleanup_file" /\ ret[a].did = "removed"
        /\ ret[a].content_hash = h
        /\ Loaded(b, h) /\ ret[b].value \in DOMAIN files
        /\ isdir(dirs, <<local[b], h>>)

\* C7: when archive_file calls on files of the same bytes raced and each
\* uploaded, the bucket holds one object for the hash, under the key derived
\* from it, with those bytes, and the calls returned that hash.
C7_BenignRace ==
    \A h \in Hashes, b \in Bytes :
        (uploads[h] >= 2 /\ ArchivedUnder(h) = {b}) =>
            /\ ObjectsFor(h) = {StorageKey(h)}
            /\ bucket[StorageKey(h)] = b
            /\ \A t \in Ctx :
                 (ret[t].op = "archive_file" /\ ret[t].did = "uploaded"
                  /\ ret[t].content_hash = h) => ret[t].value = h

\* Both threads located no object and both uploaded the same bytes.
C7_Witness ==
    \E h \in Hashes, b \in Bytes :
        /\ uploads[h] = 2 /\ ArchivedUnder(h) = {b}
        /\ \A t \in Ctx : ret[t] = Returned("archive_file", h, h, "uploaded")

\* C8: cleanup_file never raises; after cleanup_file(h) the thread has no
\* cache directory and no cached file for h, and cleaning up again would
\* change nothing.
C8_CleanupIdempotent ==
    \A t \in Ctx : ret[t].op = "cleanup_file" =>
        /\ ret[t].exc = "none" /\ ret[t].value = NoHash
        /\ ret[t].content_hash # NoHash =>
             LET path == _get_local_prefix(local[t], ret[t].content_hash)
             IN /\ local[t] \in roots
                /\ ~isdir(dirs, path)
                /\ \A p \in DOMAIN files : <<p[1], p[2]>> # path
                /\ CleanupPath(dirs, files, path) =
                       [dirs |-> dirs, files |-> files, exc |-> "none",
                        did |-> "nothing"]

\* A thread cleaned up a hash it had loaded.
C8_Witness ==
    \E t \in Ctx : ret[t].op = "cleanup_file" /\ ret[t].did = "removed"

OnlyUploadWrites ==
    bucket' # bucket => \E t \in Ctx : pc[t] = "archive_upload" /\ pc'[t] = "idle"

\* C9 as claimed: only archive_file changes the bucket, and no step removes
\* an object or changes the bytes of one.
C9_RemoteWritesAsClaimed ==
    [][ /\ OnlyUploadWrites
        /\ \A k \in DOMAIN bucket : k \in DOMAIN bucket' /\ bucket'[k] = bucket[k]
      ]_vars

\* C9 amended: only archive_file changes the bucket and no step removes an
\* object; the bytes of an object change only when some archive_file call was
\* handed a content hash that is not the checksum of its file.
C9_RemoteWrites ==
    [][ /\ OnlyUploadWrites
        /\ \A k \in DOMAIN bucket :
             /\ k \in DOMAIN bucket'
             /\ bucket'[k] # bucket[k] => ~Honest
      ]_vars

\* Two honest uploads of one hash: the second wrote over the first.
C9_Witness == Honest /\ \E h \in Hashes : uploads[h] >= 2

\* C10: when the object load_file located is gone at the download step,
\* load_file raises; it returns neither None nor a path.
C10_VanishedIsError ==
    [][ \A t \in Ctx :
          (pc[t] = "load_fetch" /\ pc'[t] = "idle"
           /\ frame[t].key \notin DOMAIN bucket)
            => /\ ret'[t].op = "load_file"
               /\ ret'[t].exc # "none"
               /\ ret'[t].value = NoHash
      ]_vars

\* A load_file whose object was deleted between its two steps.
C10_Witness ==
    \E t \in Ctx : ret[t].op = "load_file" /\ ret[t].did = "vanished"

\* C11: generate_url hands back a URL only when the object it located is in
\* the bucket at the moment the URL is signed; when the object is gone by
\* then, generate_url raises and returns no URL.
C11_UrlRequiresObject ==
    [][ \A t \in Ctx :
          (pc[t] = "url_sign" /\ pc'[t] = "idle")
            => /\ ret'[t].value # NoHash => frame[t].key \in DOMAIN bucket
               /\ frame[t].key \notin DOMAIN bucket => ret'[t].exc # "none"
      ]_vars

\* Thread t's load_file comes back from its download step with an error.
FetchFails(t) == pc[t] = "load_fetch" /\ pc'[t] = "idle" /\ ret'[t].exc # "none"

\* C12 as claimed: when the download step of load_file fails, the cache is as
\* it was before the call: the same roots, directories and files.
C12_NoPartialEntryAsClaimed ==
    [][ \A t \in Ctx : FetchFails(t) =>
            /\ files' = files
            /\ dirs' = dirs
            /\ roots' = roots
      ]_vars

\* C12 amended: when the download step of load_file fails, every cached file
\* is as it was before the call and none is added; of the directories, only
\* the thread's root and its directory for the hash may be new, and that
\* directory is left in place, empty if the call made it.
C12_NoPartialEntry ==
    [][ \A t \in Ctx : FetchFails(t) =>
            LET dir == _get_local_prefix(local'[t], frame[t].content_hash)
            IN /\ files' = files
               /\ dirs \subseteq dirs' /\ dirs' \subseteq dirs \cup {dir}
               /\ roots \subseteq roots' /\ roots' \subseteq roots \cup {local'[t]}
               /\ \A p \in DOMAIN files' : files'[p] \in Bytes
      ]_vars

\* A load_file failed at its download step in a thread that holds a file of
\* the hash from an earlier load, and the file is as it was.
C12_Witness ==
    \E t \in Ctx :
        /\ ret[t].op = "load_file" /\ ret[t].exc # "none"
        /\ \E p \in DOMAIN files :
             /\ p[1] = local[t] /\ p[2] = ret[t].content_hash
             /\ files[p] \in Bytes

\* Thread t's archive_file of a path with no file behind it comes back.
MissingSourceDone(t) ==
    \/ pc[t] = "archive_upload" /\ pc'[t] = "idle" /\ frame[t].file.bytes = Missing
    \/ pc[t] = "idle" /\ pc'[t] = "idle" /\ nops'[t] # nops[t]
         /\ ret'[t].op = "archive_file"

\* C13 as claimed: archive_file of a path that does not exist raises and
\* leaves the bucket unchanged, whether or not a content hash is supplied and
\* whether or not an object is stored for it.
C13_MissingSourceAsClaimed ==
    [][ \A t \in Ctx : MissingSourceDone(t) =>
            /\ ret'[t].op = "archive_file" /\ ret'[t].exc # "none"
            /\ bucket' = bucket
      ]_vars

\* C13 amended: archive_file of a path that does not exist leaves the bucket
\* unchanged; it raises, except when a content hash is supplied and an object
\* is located for it, and then it returns that hash without opening the file.
C13_MissingSource ==
    [][ \A t \in Ctx : MissingSourceDone(t) =>
            /\ ret'[t].op = "archive_file"
            /\ bucket' = bucket /\ uploads' = uploads /\ archived' = archived
            /\ IF pc[t] = "archive_upload" /\ frame[t].key # NoHash
               THEN /\ frame[t].supplied
                    /\ ret'[t] = Returned("archive_file", frame[t].content_hash,
                                          frame[t].content_hash, "found")
               ELSE ret'[t].exc # "none" /\ ret'[t].value = NoHash
      ]_vars

\* One thread archived a missing path without a hash and another with the
\* hash of an object that is not stored, over a bucket that holds an object.
C13_Witness ==
    \E t, o \in Ctx :
        /\ ret[t].op = "archive_file" /\ ret[t].exc = "IOError"
        /\ ret[o].op = "archive_file" /\ ret[o].exc = "OSError"
        /\ DOMAIN bucket # {}

\* The expiry a presigned URL carries.
ExpiryOf(url) == url[4]

CleansNone(t) ==
    /\ pc[t] = "idle" /\ pc'[t] = "idle" /\ nops'[t] # nops[t]
    /\ ret'[t].op = "cleanup_file" /\ ret'[t].content_hash = NoHash

\* C15: cleanup_file(None) returns None without raising and changes nothing:
\* not the bucket, not any thread's cache directories and files, and not the
\* caller's temp directory, which it does not create when there is none.
C15_CleanupNone ==
    [][ \A t \in Ctx : CleansNone(t) =>
            /\ ret'[t] = Returned("cleanup_file", NoHash, NoHash, "nothing")
            /\ bucket' = bucket
            /\ local' = local /\ roots' = roots
            /\ dirs' = dirs /\ files' = files
      ]_vars

\* A thread with no temp directory called cleanup_file(None) while another
\* thread holds a cached file, and still has no temp directory.
C15_Witness ==
    \E t, o \in Ctx :
        /\ ret[t] = Returned("cleanup_file", NoHash, NoHash, "nothing")
        /\ local[t] = 0
        /\ \E p \in DOMAIN files : p[1] = local[o]

\* The files in the cache directory of hash h under the temp directory d.
FilesIn(d, h) == {p \in DOMAIN files : p[1] = d /\ p[2] = h}

\* C16 as claimed: every cache directory holds zero or one file.
C16_AtMostOneFileAsClaimed ==
    \A d \in roots, h \in Hashes : Cardinality(FilesIn(d, h)) <= 1

\* C16 amended: a cache directory holds at most one file for each file name
\* load_file was given for the hash (the name 'data' when none was given)
\* since the directory was last cleaned up: only a load_file adds a file, and
\* it adds none but the one at its own path, in its own thread's directory.
C16_OneFilePerName ==
    [][ \A p \in DOMAIN files' \ DOMAIN files :
          \E t \in Ctx :
            /\ pc[t] = "load_fetch" /\ pc'[t] = "idle"
            /\ p = <<local'[t], frame[t].content_hash,
                     IF frame[t].file_name = NoName THEN "data"
                     ELSE frame[t].file_name>>
            /\ ret'[t].value = p
            /\ <<p[1], p[2]>> \in dirs'
      ]_vars

\* A thread loaded one hash under two names and its directory holds two files.
C16_Witness ==
    \E t \in Ctx, h \in Hashes :
        /\ local[t] # 0
        /\ Cardinality(FilesIn(local[t], h)) = 2
        /\ Loaded(t, h)

\* C17: when os.makedirs cannot create the cache directory, for another
\* reason than its being there, load_file raises the error makedirs raised
\* and does not get to download_file; a directory that is there is no error.
C17_MakedirsErrorsPropagate ==
    [][ \A t \in Ctx :
          (pc[t] = "load_fetch" /\ pc'[t] = "idle") =>
            LET dir == _get_local_prefix(local'[t], frame[t].content_hash)
                made == makedirs(dirs, dir, dir \notin dirs')
            IN /\ made.exc = "PermissionError"
                    => /\ ret'[t].exc = made.exc
                       /\ ret'[t].did \notin {"downloaded", "vanished", "nodir"}
               /\ made.exc = "FileExistsError" /\ frame[t].key \in DOMAIN bucket
                    => ret'[t].did = "downloaded"
      ]_vars

\* C18: _locate_key(h) returns a key only if it is the key archive_file
\* writes for h, and returns one exactly when that object is stored; so a
\* call working on h holds no key but that of h (load_file downloads no other
\* object, archive_file is not skipped for another's), and a URL is signed for
\* no other key.
C18_ProbeExact ==
    /\ \A h \in Hashes :
         /\ _locate_key(bucket, h) \in {NoHash, path_join(_get_prefix(h), DataName)}
         /\ _locate_key(bucket, h) # NoHash <=> StorageKey(h) \in DOMAIN bucket
    /\ \A t \in Ctx :
         /\ pc[t] # "idle" => frame[t].key \in {NoHash, StorageKey(frame[t].content_hash)}
         /\ ret[t].did = "signed" => ret[t].value[1] = StorageKey(ret[t].content_hash)

\* With the objects of two hashes stored, one thread uploaded the second
\* although the first was there, and the other thread loaded the first and
\* got its bytes, not those of the second.
C18_Witness ==
    \E t, o \in Ctx, h1, h2 \in Hashes :
        /\ h1 # h2
        /\ StorageKey(h1) \in DOMAIN bucket /\ StorageKey(h2) \in DOMAIN bucket
        /\ bucket[StorageKey(h1)] # bucket[StorageKey(h2)]
        /\ ret[t] = Returned("archive_file", h2, h2, "uploaded")
        /\ Loaded(o, h1) /\ files[ret[o].value] = bucket[StorageKey(h1)]

\* Thread t's load_file(h) downloads in this step, in a thread whose cache
\* directory for h is already there.
LoadsAgain(t) ==
    /\ pc[t] = "load_fetch" /\ pc'[t] = "idle"
    /\ local[t] # 0
    /\ isdir(dirs, _get_local_prefix(local[t], frame[t].content_hash))
    /\ frame[t].key \in DOMAIN bucket

\* C19: a load_file(h, name) in a thread whose cache directory for h exists
\* succeeds, returns the path under the thread's temp directory that an
\* earlier load_file(h, name) of the thread returned, and leaves the object's
\* bytes at it; a thread's temp directory, once made, is never another.
C19_RepeatedLoad ==
    [][ \A t \in Ctx :
          /\ local[t] # 0 => local'[t] = local[t]
          /\ LoadsAgain(t) =>
               LET h == frame[t].content_hash
                   name == IF frame[t].file_name = NoName THEN "data"
                           ELSE frame[t].file_name
               IN /\ ret'[t] = Returned("load_file", h, <<local[t], h, name>>,
                                        "downloaded")
                  /\ (Loaded(t, h) /\ ret[t].value[3] = name)
                        => ret'[t].value = ret[t].value
                  /\ files'[ret'[t].value] = bucket[frame[t].key]
                  /\ roots' = roots /\ dirs' = dirs
      ]_vars

\* A thread loaded a hash a second time under the same name: the file it
\* wrote was there already, and its directory holds that one file.
C19_Witness ==
    \E t \in Ctx, h \in Hashes :
        /\ again[t] /\ Loaded(t, h)
        /\ FilesIn(local[t], h) = {ret[t].value}
        /\ files[ret[t].value] = bucket[StorageKey(h)]

\* Thread t calls cleanup_file with a content hash in this step.
Cleans(t) ==
    /\ pc[t] = "idle" /\ pc'[t] = "idle" /\ nops'[t] # nops[t]
    /\ ret'[t].op = "cleanup_file" /\ ret'[t].content_hash # NoHash

\* C20: cleanup_file(h) removes the thread's cache directory for h with every
\* file in it, and leaves every other cache directory and every file in
\* another directory as it was.
C20_CleanupScoped ==
    [][ \A t \in Ctx : Cleans(t) =>
            LET path == _get_local_prefix(local'[t], ret'[t].content_hash)
            IN /\ dirs' = dirs \ {path}
               /\ DOMAIN files' = {p \in DOMAIN files : <<p[1], p[2]>> # path}
               /\ \A p \in DOMAIN files' : files'[p] = files[p]
      ]_vars

\* A thread that had loaded two hashes cleaned one up: its directory and file
\* for the other hash are there.
C20_Witness ==
    \E t \in Ctx, h1, h2 \in Hashes :
        /\ h1 # h2
        /\ ret[t] = Returned("cleanup_file", h1, NoHash, "removed")
        /\ ~isdir(dirs, _get_local_prefix(local[t], h1))
        /\ isdir(dirs, _get_local_prefix(local[t], h2))
        /\ FilesIn(local[t], h2) # {}

====
